---- MODULE Spec2Model ----
(***************************************************************************)
(* Model of tutorial1-character-controller/src/main.rs: the input          *)
(* controller of the player (Player::process_input_event), the per-tick    *)
(* update of the player (Player::update) and the fixed-timestep loop that  *)
(* the closure handed to event_loop.run drives.                            *)
(*                                                                         *)
(* Numbers.  Every number of the program is an f32.  The model keeps the   *)
(* f32 values that are whole multiples of a unit and rounds every result   *)
(* the way f32 arithmetic does (24 significant bits, ties to even):        *)
(*   - angles (pitch, yaw, mouse deltas): unit = 1 degree;                 *)
(*   - time (clock readings, elapsed_time, dt): unit = 2^-29 second, the   *)
(*     unit in the last place of the f32 constant 1.0 / 60.0;              *)
(*   - velocities and direction vectors: unit = 1/5, so that the rotated   *)
(*     unit vectors (3,0,4)/5 and (4,0,-3)/5 are whole.                    *)
(* On such values f32 addition and subtraction are exactly RoundF32 of the *)
(* whole-number result.                                                    *)
(***************************************************************************)
EXTENDS Integers

VARIABLES
    controller,     \* Player.controller : InputController
    body,           \* the rigid body node: lin_vel, look, side, rotation
    camera,         \* the camera node: the pitch its local rotation was set from
    clock,          \* last reading of clock.elapsed().as_secs_f32()
    elapsed_time,   \* main's elapsed_time
    dt,             \* main's dt (meaningful while a drain runs)
    pc,             \* position inside the closure: idle | while | game_update | engine_update
    control_flow,   \* the event loop's ControlFlow: Poll | Exit
    loop,           \* running | exited
    phase,          \* position inside one event-loop iteration: end | events | redraw | cleared
    lastKey,        \* history: per mapped key, the state of its most recent event
    sumDx,          \* history: exact sum of the dx of all mouse motions delivered
    mouseCount,     \* history: number of mouse motions delivered
    ticks,          \* history: total number of ticks fired
    drainTicks,     \* history: ticks fired by the current / most recent drain
    dt0,            \* history: dt at the start of the current / most recent drain
    exitRequested   \* history: a CloseRequested or Escape event has been handled

vars == << controller, body, camera, clock, elapsed_time, dt, pc, control_flow,
           loop, phase, lastKey, sumDx, mouseCount, ticks, drainTicks, dt0,
           exitRequested >>

inputVars == << controller, lastKey, sumDx, mouseCount >>
timeVars  == << clock, elapsed_time, dt, ticks, drainTicks, dt0 >>
sceneVars == << body, camera >>

----------------------------------------------------------------------------
(* f32 arithmetic on whole multiples of the unit *)

Abs(n) == IF n < 0 THEN -n ELSE n

\* 2^24: an f32 holds 24 significant bits.
F32Precision == 16777216

RECURSIVE UlpFrom(_, _)
UlpFrom(a, p) == IF a \div p < F32Precision THEN p ELSE UlpFrom(a, 2 * p)

\* The f32 nearest to the whole number n (round to nearest, ties to even).
RoundF32(n) ==
    LET a  == Abs(n)
        p  == UlpFrom(a, 1)
        q  == a \div p
        r  == a % p
        up == (2 * r > p) \/ (2 * r = p /\ q % 2 = 1)
        m  == IF up THEN q + 1 ELSE q
    IN  IF n < 0 THEN -(m * p) ELSE m * p

\* f32::clamp
Clamp(x, lo, hi) == IF x < lo THEN lo ELSE IF x > hi THEN hi ELSE x

\* const TIMESTEP: f32 = 1.0 / 60.0  (0x3C888889 = 8947849 * 2^-29)
TIMESTEP == 8947849

PitchMin == -90
PitchMax == 90

----------------------------------------------------------------------------
(* Events *)

MappedKeys == {"W", "S", "A", "D"}
\* "Q" stands for any other key, "None" for virtual_keycode = None.
Keys == MappedKeys \cup {"Escape", "Q", "None"}
ElementStates == {"Pressed", "Released"}

KeyboardInput(key, state) ==
    [class |-> "WindowEvent", kind |-> "KeyboardInput", key |-> key, state |-> state]
MouseMotion(dx, dy) ==
    [class |-> "DeviceEvent", kind |-> "MouseMotion", dx |-> dx, dy |-> dy]
CloseRequested == [class |-> "WindowEvent", kind |-> "CloseRequested"]
Resized        == [class |-> "WindowEvent", kind |-> "Resized"]
Focused        == [class |-> "WindowEvent", kind |-> "Focused"]
Button         == [class |-> "DeviceEvent", kind |-> "Button"]
MainEventsClearedEvent  == [class |-> "MainEventsCleared", kind |-> "MainEventsCleared"]
RedrawRequestedEvent    == [class |-> "RedrawRequested", kind |-> "RedrawRequested"]
RedrawEventsCleared     == [class |-> "RedrawEventsCleared", kind |-> "RedrawEventsCleared"]
NewEvents               == [class |-> "NewEvents", kind |-> "NewEvents"]
LoopDestroyed           == [class |-> "LoopDestroyed", kind |-> "LoopDestroyed"]

KeyboardEvents == { KeyboardInput(k, s) : k \in Keys, s \in ElementStates }

IsKeyboard(e) == e.class = "WindowEvent" /\ e.kind = "KeyboardInput"
IsMouseMotion(e) == e.class = "DeviceEvent" /\ e.kind = "MouseMotion"
IsMappedKey(e) == IsKeyboard(e) /\ e.key \in MappedKeys

----------------------------------------------------------------------------
(* InputController and Player::process_input_event *)

DefaultController ==
    [move_forward |-> FALSE, move_backward |-> FALSE, move_left |-> FALSE,
     move_right |-> FALSE, pitch |-> 0, yaw |-> 0]

\* The KeyboardInput arm: match key_code { W, S, A, D, _ }.
ProcessKeyboardInputToggle(c, e) ==
    LET pressed == (e.state = "Pressed") IN
    CASE e.key = "W" -> [c EXCEPT !.move_forward = ~c.move_forward]
      [] e.key = "S" -> [c EXCEPT !.move_backward = pressed]
      [] e.key = "A" -> [c EXCEPT !.move_left = pressed]
      [] e.key = "D" -> [c EXCEPT !.move_right = pressed]
      [] OTHER -> c

ProcessKeyboardInputSwapped(c, e) ==
    LET pressed == (e.state = "Pressed") IN
    CASE e.key = "W" -> [c EXCEPT !.move_forward = pressed]
      [] e.key = "S" -> [c EXCEPT !.move_backward = pressed]
      [] e.key = "A" -> [c EXCEPT !.move_right = pressed]
      [] e.key = "D" -> [c EXCEPT !.move_left = pressed]
      [] OTHER -> c

ProcessKeyboardInputEscape(c, e) ==
    LET pressed == (e.state = "Pressed") IN
    CASE e.key = "W" -> [c EXCEPT !.move_forward = pressed]
      [] e.key = "S" -> [c EXCEPT !.move_backward = pressed]
      [] e.key = "A" -> [c EXCEPT !.move_left = pressed]
      [] e.key = "D" -> [c EXCEPT !.move_right = pressed]
      [] e.key = "Escape" -> DefaultController
      [] OTHER -> c

ProcessKeyboardInput(c, e) ==
    LET pressed == (e.state = "Pressed") IN
    CASE e.key = "W" -> [c EXCEPT !.move_forward = pressed]
      [] e.key = "S" -> [c EXCEPT !.move_backward = pressed]
      [] e.key = "A" -> [c EXCEPT !.move_left = pressed]
      [] e.key = "D" -> [c EXCEPT !.move_right = pressed]
      [] OTHER -> c

\* The MouseMotion arm: yaw -= delta.0 as f32; pitch = (pitch + delta.1 as f32).clamp(-90, 90).
ProcessMouseMotionNoClamp(c, e) ==
    [c EXCEPT !.yaw   = RoundF32(c.yaw - RoundF32(e.dx)),
              !.pitch = RoundF32(c.pitch + RoundF32(e.dy))]

ProcessMouseMotion(c, e) ==
    [c EXCEPT !.yaw   = RoundF32(c.yaw - RoundF32(e.dx)),
              !.pitch = Clamp(RoundF32(c.pitch + RoundF32(e.dy)), PitchMin, PitchMax)]

ProcessInputEvent(c, e) ==
    CASE IsKeyboard(e) /\ e.key # "None" -> ProcessKeyboardInput(c, e)
      [] IsMouseMotion(e) -> ProcessMouseMotion(c, e)
      [] OTHER -> c

----------------------------------------------------------------------------
(* The match of the closure on the event: what it writes to *control_flow. *)

MainMatchNoClose(e, cf) ==
    CASE e.class = "MainEventsCleared" -> cf
      [] e.class = "RedrawRequested" -> cf
      [] e.class = "WindowEvent" ->
            IF IsKeyboard(e) /\ e.key = "Escape" THEN "Exit" ELSE cf
      [] OTHER -> "Poll"

MainMatch(e, cf) ==
    CASE e.class = "MainEventsCleared" -> cf
      [] e.class = "RedrawRequested" -> cf
      [] e.class = "WindowEvent" ->
            IF e.kind = "CloseRequested" THEN "Exit"
            ELSE IF IsKeyboard(e) /\ e.key = "Escape" THEN "Exit"
            ELSE cf
      [] OTHER -> "Poll"

\* event_loop.run: ControlFlow::Exit is sticky; once set, what the closure
\* writes to *control_flow is discarded.
StickyExit(old, new) == IF old = "Exit" THEN "Exit" ELSE new

IsExitRequest(e) ==
    e.class = "WindowEvent"
    /\ (e.kind = "CloseRequested" \/ (IsKeyboard(e) /\ e.key = "Escape"))

----------------------------------------------------------------------------
(* Vectors (Vector3<f32>) *)

VecAdd(u, v) == << RoundF32(u[1] + v[1]), RoundF32(u[2] + v[2]), RoundF32(u[3] + v[3]) >>
VecSub(u, v) == << RoundF32(u[1] - v[1]), RoundF32(u[2] - v[2]), RoundF32(u[3] - v[3]) >>
ZeroVec == << 0, 0, 0 >>

\* Player::update, the velocity part: lines 129-147.
NewVelocityRightAdds(c, b) ==
    LET v0 == << 0, b.lin_vel[2], 0 >>
        v1 == IF c.move_forward  THEN VecAdd(v0, b.look) ELSE v0
        v2 == IF c.move_backward THEN VecSub(v1, b.look) ELSE v1
        v3 == IF c.move_left     THEN VecAdd(v2, b.side) ELSE v2
        v4 == IF c.move_right    THEN VecAdd(v3, b.side) ELSE v3
    IN  v4

NewVelocity(c, b) ==
    LET v0 == << 0, b.lin_vel[2], 0 >>
        v1 == IF c.move_forward  THEN VecAdd(v0, b.look) ELSE v0
        v2 == IF c.move_backward THEN VecSub(v1, b.look) ELSE v1
        v3 == IF c.move_left     THEN VecAdd(v2, b.side) ELSE v2
        v4 == IF c.move_right    THEN VecSub(v3, b.side) ELSE v3
    IN  v4

\* look_vector / side_vector of the body for the orientations the model uses
\* (rotations about the vertical axis; lengths are 5 units = 1).
Orientation(i) ==
    CASE i = 0 -> [look |-> << 0, 0, 5 >>,  side |-> << 5, 0, 0 >>]
      [] i = 1 -> [look |-> << 5, 0, 0 >>,  side |-> << 0, 0, -5 >>]
      [] i = 2 -> [look |-> << 3, 0, 4 >>,  side |-> << 4, 0, -3 >>]
      [] OTHER -> [look |-> << -4, 0, -3 >>, side |-> << -3, 0, 4 >>]

InitBody == [lin_vel |-> ZeroVec, look |-> Orientation(0).look,
             side |-> Orientation(0).side, rotation |-> 0]

----------------------------------------------------------------------------
(* Bounds and input sets *)

MaxMouseEvents == 2

DxValues == {1, -3, 16777216}
DyValues == {-10000, 60, 10000}
\* the (dx, dy) pairs delivered where every kind of event is delivered
MouseDeltas == {<< 1, 60 >>, << 16777216, -10000 >>, << -3, 10000 >>}

\* clock.elapsed().as_secs_f32() for 83_333_333 ns, 100 ms, 101 ms, 166.7 ms, 300 ms.
LoopClockReadings == {44739244, 53687092, 54223964, 89496384, 161061280}
\* readings before the first tick is due
EarlyClockReadings == {0, TIMESTEP - 1}
\* readings of one and of two TIMESTEPs
ShortClockReadings == {0, TIMESTEP, 2 * TIMESTEP}

\* Orientations and vertical velocities the physics step may leave the body with.
AllOrientations == {0, 2, 3}
AllVy == {-2, 3}

----------------------------------------------------------------------------
(* Initial state: the state main() has built when event_loop.run starts. *)

Init ==
    /\ controller = DefaultController
    /\ body = InitBody
    /\ camera = 0
    /\ clock = 0
    /\ elapsed_time = 0
    /\ dt = 0
    /\ pc = "idle"
    /\ control_flow = "Poll"
    /\ loop = "running"
    /\ phase = "end"
    /\ lastKey = [k \in MappedKeys |-> "none"]
    /\ sumDx = 0
    /\ mouseCount = 0
    /\ ticks = 0
    /\ drainTicks = 0
    /\ dt0 = 0
    /\ exitRequested = FALSE

----------------------------------------------------------------------------
(* One invocation of the closure, up to its match on the event. *)

Callback(e) ==
    /\ loop = "running"
    /\ pc = "idle"
    /\ controller' = ProcessInputEvent(controller, e)
    /\ control_flow' = StickyExit(control_flow, MainMatch(e, control_flow))
    /\ lastKey' = IF IsMappedKey(e) THEN [lastKey EXCEPT ![e.key] = e.state] ELSE lastKey
    /\ sumDx' = IF IsMouseMotion(e) THEN sumDx + e.dx ELSE sumDx
    /\ mouseCount' = IF IsMouseMotion(e) THEN mouseCount + 1 ELSE mouseCount
    /\ exitRequested' = (exitRequested \/ IsExitRequest(e))

\* NewEvents opens an iteration of the event loop.
NewIteration ==
    /\ phase = "end"
    /\ control_flow # "Exit"
    /\ Callback(NewEvents)
    /\ phase' = "events"
    /\ UNCHANGED << sceneVars, timeVars, pc, loop >>

DeliverKeyboard(key, state) ==
    /\ phase = "events"
    /\ Callback(KeyboardInput(key, state))
    /\ UNCHANGED << sceneVars, timeVars, pc, loop, phase >>

DeliverMouseMotion(dx, dy) ==
    /\ phase = "events"
    /\ mouseCount < MaxMouseEvents
    /\ Callback(MouseMotion(dx, dy))
    /\ UNCHANGED << sceneVars, timeVars, pc, loop, phase >>

\* CloseRequested, Resized (engine.set_frame_size), any other window event.
DeliverWindowEvent(e) ==
    /\ phase = "events"
    /\ Callback(e)
    /\ UNCHANGED << sceneVars, timeVars, pc, loop, phase >>

\* A device event other than MouseMotion.
DeliverDeviceEvent ==
    /\ phase = "events"
    /\ Callback(Button)
    /\ UNCHANGED << sceneVars, timeVars, pc, loop, phase >>

----------------------------------------------------------------------------
(* Event::MainEventsCleared: the fixed-timestep loop, lines 255-273. *)

\* let mut dt = clock.elapsed().as_secs_f32() - elapsed_time;
MainEventsCleared(reading) ==
    /\ phase = "events"
    /\ reading >= clock
    /\ Callback(MainEventsClearedEvent)
    /\ clock' = reading
    /\ dt' = RoundF32(reading - elapsed_time)
    /\ dt0' = RoundF32(reading - elapsed_time)
    /\ drainTicks' = 0
    /\ pc' = "while"
    /\ UNCHANGED << sceneVars, elapsed_time, ticks, loop, phase >>

\* while dt >= TIMESTEP { dt -= TIMESTEP; elapsed_time += TIMESTEP;
TickBegin ==
    /\ pc = "while"
    /\ dt >= TIMESTEP
    /\ dt' = RoundF32(dt - TIMESTEP)
    /\ elapsed_time' = RoundF32(elapsed_time + TIMESTEP)
    /\ ticks' = ticks + 1
    /\ drainTicks' = drainTicks + 1
    /\ pc' = "game_update"
    /\ UNCHANGED << inputVars, sceneVars, clock, dt0, control_flow, loop, phase,
                    exitRequested >>

\* Player::update never assigns self.controller.
ControllerAfterUpdateResetsPitch(c) == [c EXCEPT !.pitch = 0, !.move_forward = FALSE]

ControllerAfterUpdate(c) == c

\* game.update(&mut engine)  ->  Player::update
GameUpdate ==
    /\ pc = "game_update"
    /\ camera' = controller.pitch
    /\ body' = [body EXCEPT !.lin_vel = NewVelocity(controller, body),
                            !.rotation = controller.yaw]
    /\ controller' = ControllerAfterUpdate(controller)
    /\ pc' = "engine_update"
    /\ UNCHANGED << lastKey, sumDx, mouseCount, timeVars, control_flow, loop, phase,
                    exitRequested >>

\* engine.update(TIMESTEP, control_flow): the physics step of the external
\* engine may change the body's velocity (gravity, contacts) and recomputes
\* its global transform (look and side vectors).
EngineUpdate(o, vy, hit) ==
    /\ pc = "engine_update"
    /\ body' = [body EXCEPT
                  !.lin_vel = IF hit THEN << 0, vy, 0 >>
                              ELSE << body.lin_vel[1], vy, body.lin_vel[3] >>,
                  !.look = Orientation(o).look,
                  !.side = Orientation(o).side]
    /\ pc' = "while"
    /\ UNCHANGED << inputVars, camera, timeVars, control_flow, loop, phase,
                    exitRequested >>

\* The while loop ends; engine.get_window().request_redraw().
DrainEnd ==
    /\ pc = "while"
    /\ dt < TIMESTEP
    /\ pc' = "idle"
    /\ phase' = "redraw"
    /\ UNCHANGED << inputVars, sceneVars, timeVars, control_flow, loop,
                    exitRequested >>

\* Event::RedrawRequested: engine.render()
RedrawRequested ==
    /\ phase = "redraw"
    /\ Callback(RedrawRequestedEvent)
    /\ phase' = "cleared"
    /\ UNCHANGED << sceneVars, timeVars, pc, loop >>

\* RedrawEventsCleared closes the iteration.
IterationEnd ==
    /\ phase = "cleared"
    /\ Callback(RedrawEventsCleared)
    /\ phase' = "end"
    /\ UNCHANGED << sceneVars, timeVars, pc, loop >>

\* The event loop looks at ControlFlow once per iteration, at its end: with
\* Exit set it sends LoopDestroyed and stops.
LoopExit ==
    /\ phase = "end"
    /\ control_flow = "Exit"
    /\ Callback(LoopDestroyed)
    /\ loop' = "exited"
    /\ UNCHANGED << sceneVars, timeVars, pc, phase >>

----------------------------------------------------------------------------
(* Specifications *)

\* Every kind of event; the clock has not yet reached one TIMESTEP.
NextInput ==
    \/ \E k \in Keys, s \in ElementStates : DeliverKeyboard(k, s)
    \/ \E m \in MouseDeltas : DeliverMouseMotion(m[1], m[2])
    \/ \E e \in {CloseRequested, Resized, Focused} : DeliverWindowEvent(e)
    \/ DeliverDeviceEvent
    \/ \E r \in EarlyClockReadings : MainEventsCleared(r)
    \/ DrainEnd
    \/ RedrawRequested
    \/ IterationEnd
    \/ NewIteration
    \/ LoopExit

SpecInput == Init /\ [][NextInput]_vars

\* Mouse motions interleaved with key events, other events and ticks.
NextMouse ==
    \/ \E dx \in DxValues, dy \in DyValues : DeliverMouseMotion(dx, dy)
    \/ \E s \in ElementStates : DeliverKeyboard("W", s)
    \/ DeliverWindowEvent(Resized)
    \/ DeliverDeviceEvent
    \/ \E r \in ShortClockReadings : MainEventsCleared(r)
    \/ TickBegin
    \/ GameUpdate
    \/ EngineUpdate(0, 0, FALSE)
    \/ DrainEnd
    \/ RedrawRequested
    \/ IterationEnd
    \/ NewIteration

SpecMouse == Init /\ [][NextMouse]_vars

\* The fixed-timestep loop over many clock readings, and the exit requests.
NextLoop ==
    \/ \E s \in ElementStates : DeliverKeyboard("Escape", s)
    \/ DeliverKeyboard("W", "Pressed")
    \/ DeliverWindowEvent(CloseRequested)
    \/ DeliverDeviceEvent
    \/ \E r \in LoopClockReadings : MainEventsCleared(r)
    \/ TickBegin
    \/ GameUpdate
    \/ EngineUpdate(0, 0, FALSE)
    \/ DrainEnd
    \/ RedrawRequested
    \/ IterationEnd
    \/ NewIteration
    \/ LoopExit

SpecLoop == Init /\ [][NextLoop]_vars

\* The movement keys and the outcomes of the physics step.
NextUpdate ==
    \/ \E k \in MappedKeys, s \in ElementStates : DeliverKeyboard(k, s)
    \/ \E r \in ShortClockReadings : MainEventsCleared(r)
    \/ TickBegin
    \/ GameUpdate
    \/ \E o \in AllOrientations, vy \in AllVy, hit \in BOOLEAN : EngineUpdate(o, vy, hit)
    \/ DrainEnd
    \/ RedrawRequested
    \/ IterationEnd
    \/ NewIteration

SpecUpdate == Init /\ [][NextUpdate]_vars

----------------------------------------------------------------------------
(* Properties *)

Flag(c, k) ==
    CASE k = "W" -> c.move_forward
      [] k = "S" -> c.move_backward
      [] k = "A" -> c.move_left
      [] k = "D" -> c.move_right

\* C1: each movement boolean equals the pressed/released state of the most
\* recent event for its key (W, S, A, D), and is false when no event for that
\* key was ever delivered.
C1_LastEventWins ==
    \A k \in MappedKeys : Flag(controller, k) = (lastKey[k] = "Pressed")

C1_Witness ==
    /\ lastKey["W"] = "Released"
    /\ lastKey["S"] = "Pressed"
    /\ lastKey["A"] = "none"
    /\ lastKey["D"] = "Pressed"
    /\ controller.move_backward /\ controller.move_right
    /\ ~controller.move_forward /\ ~controller.move_left

\* C2: in every reachable state pitch lies in [-90, 90], whatever mouse
\* motions, other events and ticks came before.
C2_PitchInRange == controller.pitch >= -90 /\ controller.pitch <= 90

C2_Witness ==
    /\ mouseCount = MaxMouseEvents
    /\ controller.pitch = 90
    /\ camera = 90
    /\ ticks >= 1

\* C3: yaw is exactly the negative of the sum of all dx delivered so far.
C3_YawIsNegatedSum == controller.yaw = -sumDx

\* C4: a drain that starts with pending time dt0 >= 0 fires exactly
\* floor(dt0 / TIMESTEP) ticks and ends with dt < TIMESTEP; a first drain at
\* 0.1667 s fires 10 ticks and leaves elapsed_time = 10 * TIMESTEP (the f32
\* product) <= elapsed.
C4_DrainFiresFloor ==
    (pc = "idle" /\ dt0 >= 0) =>
        /\ drainTicks = dt0 \div TIMESTEP
        /\ dt < TIMESTEP
        /\ (clock = 89496384 /\ ticks = drainTicks) =>
              /\ drainTicks = 10
              /\ elapsed_time = RoundF32(10 * TIMESTEP)
              /\ elapsed_time <= clock

\* C8: after every drain elapsed_time is TIMESTEP times the number of ticks
\* fired so far, does not exceed the clock reading of that drain and trails it
\* by less than one TIMESTEP.
C8_SimulatedTimeTracksClock ==
    pc = "idle" =>
        /\ elapsed_time = TIMESTEP * ticks
        /\ elapsed_time <= clock
        /\ clock - elapsed_time < TIMESTEP

\* The velocity the claim C5 states, in exact arithmetic.
Coeff(b) == IF b THEN 1 ELSE 0
ExpectedVelocity(c, b) ==
    LET f == Coeff(c.move_forward)
        k == Coeff(c.move_backward)
        l == Coeff(c.move_left)
        r == Coeff(c.move_right)
    IN  << f * b.look[1] - k * b.look[1] + l * b.side[1] - r * b.side[1],
           b.lin_vel[2] + f * b.look[2] - k * b.look[2] + l * b.side[2] - r * b.side[2],
           f * b.look[3] - k * b.look[3] + l * b.side[3] - r * b.side[3] >>

NoMovementKey(c) ==
    ~c.move_forward /\ ~c.move_backward /\ ~c.move_left /\ ~c.move_right

C6_NoTickAfterExitRequest ==
    [][ /\ exitRequested' => control_flow' = "Exit"
        /\ exitRequested => ticks' = ticks
        /\ (exitRequested' # exitRequested) => (pc = "idle" /\ pc' = "idle")
        /\ pc = "game_update" => pc' = "engine_update"
        /\ pc = "engine_update" => pc' = "while"
      ]_vars

\* C6 as amended: once an exit request was handled control flow is Exit and
\* stays Exit, and the loop stops at the end of the iteration; ticks of that
\* iteration still run; the request is made between ticks only and every
\* started tick runs game update and engine update to completion; nothing
\* runs once the loop has stopped.
C6_ExitAtIterationEnd ==
    [][ /\ exitRequested' => control_flow' = "Exit"
        /\ (exitRequested /\ phase = "end") => loop' = "exited"
        /\ loop' = "exited" => (exitRequested /\ phase = "end" /\ pc' = "idle")
        /\ loop = "exited" => ticks' = ticks
        /\ (exitRequested' # exitRequested) => (pc = "idle" /\ pc' = "idle")
        /\ pc = "game_update" => pc' = "engine_update"
        /\ pc = "engine_update" => pc' = "while"
      ]_vars

C6_Witness ==
    /\ exitRequested
    /\ control_flow = "Exit"
    /\ pc = "engine_update"
    /\ drainTicks >= 2

\* C7: on every reachable ControllerState, delivering a keyboard event twice
\* in a row gives the same ControllerState as delivering it once.
C7_KeyEventsIdempotent ==
    \A e \in KeyboardEvents :
        ProcessInputEvent(ProcessInputEvent(controller, e), e)
            = ProcessInputEvent(controller, e)

C7_Witness ==
    /\ controller.move_forward /\ controller.move_right
    /\ controller.pitch # 0 /\ controller.yaw # 0
    /\ lastKey["S"] = "Released"
    /\ ProcessInputEvent(controller, KeyboardInput("W", "Released")) # controller

\* C9: only an invocation of the closure on an event changes the controller:
\* no step of a drain (the start of a tick, game update, engine update, the
\* end of the drain) changes it, and no event is handled while a drain runs.
C9_TicksLeaveController ==
    [][ (pc # "idle" \/ pc' # "idle") =>
            (controller' = controller /\ lastKey' = lastKey /\ mouseCount' = mouseCount)
      ]_vars

C9_Witness ==
    /\ pc = "engine_update"
    /\ drainTicks = 2
    /\ controller.move_forward
    /\ controller.pitch = 60
    /\ controller.yaw = 3
    /\ camera = 60
    /\ body.rotation = 3

UnmappedDelivery ==
    \/ \E k \in Keys \ MappedKeys, s \in ElementStates : DeliverKeyboard(k, s)
    \/ \E e \in {CloseRequested, Resized, Focused} : DeliverWindowEvent(e)
    \/ DeliverDeviceEvent
    \/ \E r \in EarlyClockReadings : MainEventsCleared(r)
    \/ RedrawRequested
    \/ IterationEnd
    \/ NewIteration
    \/ LoopExit

OnlyFlagChanges(k) ==
    /\ \A j \in MappedKeys \ {k} : Flag(controller', j) = Flag(controller, j)
    /\ controller'.pitch = controller.pitch
    /\ controller'.yaw = controller.yaw

\* C10: an event that is not mapped input leaves the controller unchanged; a
\* mapped key event changes at most its own boolean; a mouse motion changes
\* at most pitch and yaw.
C10_UnmappedEventsIgnored ==
    [][ /\ UnmappedDelivery => controller' = controller
        /\ \A k \in MappedKeys, s \in ElementStates :
              DeliverKeyboard(k, s) => OnlyFlagChanges(k)
        /\ (\E m \in MouseDeltas : DeliverMouseMotion(m[1], m[2])) =>
              \A j \in MappedKeys : Flag(controller', j) = Flag(controller, j)
      ]_vars

C10_Witness ==
    /\ exitRequested
    /\ loop = "exited"
    /\ controller.move_left /\ controller.move_backward
    /\ controller.pitch = -90
    /\ controller.yaw = -16777216

====
